---- MODULE Spec2Model ----
(***************************************************************************)
(* Model of the detection service of src/models/app.py: the process-wide   *)
(* model handle, and the three request handlers /health, /detect and       *)
(* /analyze-video.                                                         *)
(*                                                                         *)
(* Representation.                                                         *)
(*  - A string whose characters matter (class names, targetClass) is a     *)
(*    sequence of one-character strings, so that lower() and the substring *)
(*    test `a in b` are computed.                                          *)
(*  - A confidence as the detector gives it is an integer number of        *)
(*    thousandths (554 is 0.554); round(c, 2) gives hundredths (55 is      *)
(*    0.55).  No confidence of the model ends in 5, where Python's         *)
(*    round() depends on the binary value of the float.                    *)
(*  - A timestamp is in thousandths of a second, rounded to hundredths.    *)
(*  - An encoded image string is a record saying what base64.decodebytes   *)
(*    and cv2.imdecode make of it; a decodable image carries its width,    *)
(*    its height and the boxes the detector finds in it.  box.xyxy holds   *)
(*    whole pixels.                                                        *)
(*  - Request bodies are JSON objects whose fields, when present, have the *)
(*    types of the API (frames a list of objects, image a string,          *)
(*    targetClass a string, timestamp a number).                           *)
(***************************************************************************)
EXTENDS Integers, Sequences, FiniteSets

VARIABLES model, req, resp, calls

vars == <<model, req, resp, calls>>

(* ------------------------------ bounds -------------------------------- *)

\* Longest frames list of a request built from FrameKinds.
MaxFrames == 2
\* Longest frames list of a request built from BatchKinds.
MaxBatch == 11
\* Width and height of every decodable image.
ImgW == 3
ImgH == 2
\* How far outside the image a box coordinate of ProbeBoxes may lie.
MaxOut == 1

(* ------------------------- program constants -------------------------- *)

\* `confidence < 0.3`, in thousandths.
Threshold == 300
\* `keyframes[:10]`.
MaxKeyframes == 10

(* ------------------------------ helpers ------------------------------- *)

Min(a, b) == IF a < b THEN a ELSE b

Max(a, b) == IF a > b THEN a ELSE b

\* str.lower() on the characters the model uses.
LowerChar(ch) ==
    CASE ch = "C" -> "c"
      [] ch = "P" -> "p"
      [] OTHER -> ch

Lower(s) == [i \in 1..Len(s) |-> LowerChar(s[i])]

\* Python's `a in b` on strings.
IsSubstr(a, b) ==
    \E i \in 0..(Len(b) - Len(a)) : SubSeq(b, i + 1, i + Len(a)) = a

\* Python's `x in lst` on a list.
InList(x, lst) == \E i \in 1..Len(lst) : lst[i] = x

\* round(c, 2): thousandths to hundredths.
Round2(c) == (c + 5) \div 10

\* One bound of a Python/numpy slice over an axis of length n.
SliceIndex(i, n) == IF i < 0 THEN Max(i + n, 0) ELSE Min(i, n)

\* Length of a[start:stop] over an axis of length n.
SliceLen(start, stop, n) == Max(0, SliceIndex(stop, n) - SliceIndex(start, n))

(* ------------------------- the detector's data ------------------------ *)

Cup == <<"c", "u", "p">>

CellPhone == <<"c", "e", "l", "l", " ", "p", "h", "o", "n", "e">>

\* model.names: class id to class name.
names == [c \in {0, 1} |-> IF c = 0 THEN Cup ELSE CellPhone]

EmptyStr == [b64 |-> "empty"]

BadB64 == [b64 |-> "bad"]

NotImage == [b64 |-> "ok", decodes |-> FALSE]

Img(boxes) ==
    [b64 |-> "ok", decodes |-> TRUE, w |-> ImgW, h |-> ImgH, boxes |-> boxes]

Box(cls, conf, x1, y1, x2, y2) ==
    [cls |-> cls, conf |-> conf, xyxy |-> <<x1, y1, x2, y2>>]

\* A box inside the image.
Inside(cls, conf) == Box(cls, conf, 1, 0, ImgW - 1, ImgH)

(* --------------------------- base64_to_image -------------------------- *)

\* base64.decodebytes raises binascii.Error on a string that is not base64;
\* cv2.imdecode returns None on bytes that are no image.  Never called on
\* the empty string.
base64_to_image(s) ==
    CASE s.b64 = "bad" -> [out |-> "raise", msg |-> "Incorrect padding"]
      [] s.b64 = "ok" /\ ~s.decodes -> [out |-> "None"]
      [] s.b64 = "ok" /\ s.decodes ->
            [out |-> "image", frame |-> [w |-> s.w, h |-> s.h, boxes |-> s.boxes]]

\* image_to_base64 of a non-empty crop; None otherwise.
Cropped(frame, x1, y1, x2, y2) ==
    LET rows == SliceLen(y1, y2, frame.h)
        cols == SliceLen(x1, x2, frame.w)
    IN  IF rows * cols * 3 > 0
        THEN [null |-> FALSE, rows |-> rows, cols |-> cols]
        ELSE [null |-> TRUE, rows |-> 0, cols |-> 0]

(* ------------------------------ /health ------------------------------- *)

\* The handler's result: the response, and the number of model(frame) calls
\* it made.
Result(response, n) == [resp |-> response, calls |-> n]

Error(status, message) == [status |-> status, error |-> message]

health ==
    Result([status |-> 200, body |-> [status |-> "ok", model |-> "yolov8m"]], 0)

(* ------------------------------ /detect ------------------------------- *)

\* `if not model`, never taken.
DetectModelMissing_Never(m) == FALSE

\* `if not model`.
DetectModelMissing(m) == m = "None"

\* `if target_classes and class_name not in target_classes`.
DetectClassFiltered(class_name, target_classes) ==
    target_classes # <<>> /\ ~InList(class_name, target_classes)

\* `if confidence < 0.3`, on the rounded value.
DetectBelowThreshold_Rounded(confidence) == Round2(confidence) * 10 < Threshold

\* `if confidence < 0.3`.
DetectBelowThreshold(confidence) == confidence < Threshold

\* The record appended for a box that passed both tests.
DetectRecord(frame, box) ==
    LET h == frame.h
        w == frame.w
        x1 == Max(0, box.xyxy[1])
        y1 == Max(0, box.xyxy[2])
        x2 == Min(w, box.xyxy[3])
        y2 == Min(h, box.xyxy[4])
    IN  [className |-> names[box.cls],
         confidence |-> Round2(box.conf),
         bbox |-> <<x1, y1, x2, y2>>,
         croppedImage |-> Cropped(frame, x1, y1, x2, y2)]

\* `for box in r.boxes`, from box j on.
RECURSIVE DetectBoxes(_, _, _, _)
DetectBoxes(frame, target_classes, j, detections) ==
    IF j > Len(frame.boxes) THEN detections
    ELSE LET box == frame.boxes[j]
             class_name == names[box.cls]
             confidence == box.conf
         IN  IF DetectClassFiltered(class_name, target_classes)
             THEN DetectBoxes(frame, target_classes, j + 1, detections)
             ELSE IF DetectBelowThreshold(confidence)
             THEN DetectBoxes(frame, target_classes, j + 1, detections)
             ELSE DetectBoxes(frame, target_classes, j + 1,
                              Append(detections, DetectRecord(frame, box)))

detect(m, data) ==
    IF DetectModelMissing(m) THEN Result(Error(500, "Model not loaded"), 0)
    ELSE IF ~data.hasImage THEN Result(Error(400, "No image provided"), 0)
    ELSE LET target_classes == data.targetClasses
             decoded == base64_to_image(data.image)
         IN  IF decoded.out = "raise" THEN Result(Error(500, decoded.msg), 0)
             ELSE IF decoded.out = "None"
             THEN Result(Error(400, "Invalid image data"), 0)
             ELSE LET detections ==
                          DetectBoxes(decoded.frame, target_classes, 1, <<>>)
                  IN  Result([status |-> 200,
                              success |-> TRUE,
                              detections |-> detections,
                              count |-> Len(detections)], 1)

(* --------------------------- /analyze-video --------------------------- *)

\* `if not model`.
VideoModelMissing(m) == m = "None"

\* `if not frames`, never taken.
NoFrames_Never(frames) == FALSE

\* `if not frames`.
NoFrames(frames) == frames = <<>>

\* `if target_class and target_class not in class_name and class_name not in
\* target_class`.
VideoClassFiltered(class_name, target_class) ==
    /\ target_class # <<>>
    /\ ~IsSubstr(target_class, class_name)
    /\ ~IsSubstr(class_name, target_class)

\* `if confidence < 0.3`.
VideoBelowThreshold(confidence) == confidence < Threshold

\* The record appended to frame_detections.
VideoRecord(frame, box) ==
    LET h == frame.h
        w == frame.w
        x1 == Max(0, box.xyxy[1])
        y1 == Max(0, box.xyxy[2])
        x2 == Min(w, box.xyxy[3])
        y2 == Min(h, box.xyxy[4])
    IN  [className |-> names[box.cls],
         confidence |-> Round2(box.conf),
         bbox |-> <<x1, y1, x2, y2>>,
         croppedImage |-> Cropped(frame, x1, y1, x2, y2)]

\* `if confidence > best_confidence: best_confidence = confidence`, taking
\* the last confidence instead.
BestConfidence_Last(best_confidence, confidence) == confidence

\* `if confidence > best_confidence: best_confidence = confidence`.
BestConfidence(best_confidence, confidence) ==
    IF confidence > best_confidence THEN confidence ELSE best_confidence

\* `for box in r.boxes`, from box j on; acc holds frame_detections and
\* best_confidence.
RECURSIVE VideoBoxes(_, _, _, _)
VideoBoxes(frame, target_class, j, acc) ==
    IF j > Len(frame.boxes) THEN acc
    ELSE LET box == frame.boxes[j]
             class_name == Lower(names[box.cls])
             confidence == box.conf
         IN  IF VideoClassFiltered(class_name, target_class)
             THEN VideoBoxes(frame, target_class, j + 1, acc)
             ELSE IF VideoBelowThreshold(confidence)
             THEN VideoBoxes(frame, target_class, j + 1, acc)
             ELSE VideoBoxes(frame, target_class, j + 1,
                    [frame_detections |->
                         Append(acc.frame_detections, VideoRecord(frame, box)),
                     best_confidence |->
                         BestConfidence(acc.best_confidence, confidence)])

\* `for frame_data in frames`, from entry i on; acc holds keyframes,
\* all_confidences, the number of model(frame) calls made, and the exception
\* that ended the loop, if any.
RECURSIVE FrameLoop(_, _, _, _)
FrameLoop(frames, target_class, i, acc) ==
    IF i > Len(frames) THEN acc
    ELSE LET frame_data == frames[i]
             image_b64 == IF frame_data.hasImage THEN frame_data.image ELSE EmptyStr
             timestamp == IF frame_data.hasTimestamp THEN frame_data.timestamp ELSE 0
         IN  IF image_b64.b64 = "empty"
             THEN FrameLoop(frames, target_class, i + 1, acc)
             ELSE LET decoded == base64_to_image(image_b64) IN
                  IF decoded.out = "raise"
                  THEN [acc EXCEPT !.raised = TRUE, !.message = decoded.msg]
                  ELSE IF decoded.out = "None"
                  THEN FrameLoop(frames, target_class, i + 1, acc)
                  ELSE LET found == VideoBoxes(decoded.frame, target_class, 1,
                                      [frame_detections |-> <<>>,
                                       best_confidence |-> 0])
                           called == [acc EXCEPT !.calls = @ + 1]
                       IN  IF found.frame_detections # <<>>
                           THEN FrameLoop(frames, target_class, i + 1,
                                  [called EXCEPT
                                     !.all_confidences =
                                         Append(@, found.best_confidence),
                                     !.keyframes =
                                         Append(@,
                                           [timestamp |-> Round2(timestamp),
                                            frameImage |-> image_b64,
                                            confidence |->
                                                Round2(found.best_confidence),
                                            detections |->
                                                found.frame_detections])])
                           ELSE FrameLoop(frames, target_class, i + 1, called)

RECURSIVE SeqSum(_)
SeqSum(s) == IF s = <<>> THEN 0 ELSE s[1] + SeqSum(Tail(s))

RECURSIVE SeqMax(_)
SeqMax(s) == IF Len(s) = 1 THEN s[1] ELSE Max(s[1], SeqMax(Tail(s)))

\* list.sort is stable, and with reverse=True keeps equal keys in their
\* original order: kf goes behind every element whose key is >= its own.
\* Here it goes before the elements of equal key.
InsertByConfidence_Unstable(sorted, kf) ==
    LET p == Cardinality({k \in 1..Len(sorted) :
                            sorted[k].confidence > kf.confidence})
    IN  SubSeq(sorted, 1, p) \o <<kf>> \o SubSeq(sorted, p + 1, Len(sorted))

InsertByConfidence(sorted, kf) ==
    LET p == Cardinality({k \in 1..Len(sorted) :
                            sorted[k].confidence >= kf.confidence})
    IN  SubSeq(sorted, 1, p) \o <<kf>> \o SubSeq(sorted, p + 1, Len(sorted))

\* keyframes.sort(key=lambda x: x['confidence'], reverse=True), having
\* sorted the first n.
RECURSIVE SortByConfidence(_, _)
SortByConfidence(keyframes, n) ==
    IF n = 0 THEN <<>>
    ELSE InsertByConfidence(SortByConfidence(keyframes, n - 1), keyframes[n])

\* keyframes[:10], not cut.
TopKeyframes_All(keyframes) == keyframes

\* keyframes[:10].
TopKeyframes(keyframes) == SubSeq(keyframes, 1, Min(Len(keyframes), MaxKeyframes))

analyze_video(m, data) ==
    IF VideoModelMissing(m) THEN Result(Error(500, "Model not loaded"), 0)
    ELSE LET frames == IF data.hasFrames THEN data.frames ELSE <<>>
             target_class == Lower(data.targetClass)
             item_name == data.itemName
             item_description == data.itemDescription
         IN  IF NoFrames(frames) THEN Result(Error(400, "No frames provided"), 0)
             ELSE LET done == FrameLoop(frames, target_class, 1,
                                [keyframes |-> <<>>, all_confidences |-> <<>>,
                                 calls |-> 0, raised |-> FALSE, message |-> ""])
                      all_confidences == done.all_confidences
                      n == Len(all_confidences)
                      \* round(sum / len, 2); a mean ending in 5 thousandths
                      \* is rounded up here.
                      avg_confidence ==
                          IF n > 0
                          THEN (SeqSum(all_confidences) + 5 * n) \div (10 * n)
                          ELSE 0
                      max_confidence ==
                          IF n > 0 THEN Round2(SeqMax(all_confidences)) ELSE 0
                      keyframes ==
                          TopKeyframes(
                              SortByConfidence(done.keyframes, Len(done.keyframes)))
                  IN  IF done.raised
                      THEN Result(Error(500, done.message), done.calls)
                      ELSE Result(
                             [status |-> 200,
                              success |-> TRUE,
                              keyframes |-> keyframes,
                              stats |->
                                [totalFramesAnalyzed |-> Len(frames),
                                 framesWithTarget |-> Len(keyframes),
                                 averageConfidence |-> avg_confidence,
                                 maxConfidence |-> max_confidence],
                              targetClass |-> target_class,
                              itemName |-> item_name,
                              itemDescription |-> item_description],
                             done.calls)

(* ------------------------- the requests sent -------------------------- *)

\* Detector confidences, in thousandths: below the threshold though it
\* rounds to 0.30, on the threshold, and two above.
Confs == {297, 300, 554, 950}

Coords(n) == (0 - MaxOut)..(n + MaxOut)

\* Every whole-pixel box within MaxOut of the image, inverted ones included.
ProbeBoxes ==
    {Box(0, 554, x1, y1, x2, y2) :
        x1 \in Coords(ImgW), y1 \in Coords(ImgH),
        x2 \in Coords(ImgW), y2 \in Coords(ImgH)}

FilterBoxes == {Inside(cls, conf) : cls \in {0, 1}, conf \in Confs}

TargetLists == {<<>>, <<Cup>>, <<<<"C", "u", "p">>>>, <<CellPhone, Cup>>}

DetectBody(hasImage, image, targetClasses) ==
    [endpoint |-> "/detect", hasImage |-> hasImage, image |-> image,
     targetClasses |-> targetClasses]

DetectBodies ==
    {DetectBody(FALSE, EmptyStr, <<>>)}
    \cup {DetectBody(TRUE, image, <<>>) :
            image \in {BadB64, NotImage} \cup {Img(<<b>>) : b \in ProbeBoxes}}
    \cup {DetectBody(TRUE, Img(boxes), tl) :
            boxes \in {<<>>} \cup {<<a>> : a \in FilterBoxes}
                             \cup {<<a, b>> : a \in FilterBoxes, b \in FilterBoxes},
            tl \in TargetLists}

Targets ==
    {<<>>, Cup, <<"C", "u", "p">>, <<"p", "h", "o", "n", "e">>,
     <<"c", "u", "p", "s">>, <<"b", "o", "t", "t", "l", "e">>}

\* The image strings of the frame entries of a short request.
FrameKinds ==
    {EmptyStr, BadB64, NotImage,
     Img(<<>>),
     Img(<<Inside(0, 554)>>),
     Img(<<Inside(0, 551)>>),
     Img(<<Inside(0, 297)>>),
     Img(<<Inside(0, 300), Inside(1, 950)>>),
     Img(<<Inside(1, 950), Inside(0, 554)>>),
     Img(<<Box(0, 950, 0 - MaxOut, 0, 0 - MaxOut, ImgH)>>),
     Img(<<Box(1, 554, ImgW + MaxOut, 0, ImgW + MaxOut, ImgH)>>)}

\* The image strings of the frame entries of a long request.
BatchKinds == {Img(<<Inside(0, 950)>>), Img(<<Inside(1, 554)>>)}

\* The frame entry at position i; i seconds and 4 ms into the video.
Frame(image, i) ==
    [hasImage |-> TRUE, image |-> image,
     hasTimestamp |-> TRUE, timestamp |-> 1000 * i + 4]

\* Stands for a frame entry without an "image" key.
NoImageKey == [b64 |-> "absent"]

\* The frame entry {}.
EmptyFrame ==
    [hasImage |-> FALSE, image |-> EmptyStr, hasTimestamp |-> FALSE, timestamp |-> 0]

\* Every list of at most MaxFrames entries, each {} or an entry with an image
\* string of FrameKinds.
FrameLists ==
    UNION {{[i \in 1..n |-> IF f[i] = NoImageKey THEN EmptyFrame ELSE Frame(f[i], i)] :
                f \in [1..n -> FrameKinds \cup {NoImageKey}]} : n \in 0..MaxFrames}

\* Every list of MaxKeyframes to MaxBatch entries with an image string of
\* BatchKinds.
BatchLists ==
    UNION {{[i \in 1..n |-> Frame(f[i], i)] : f \in [1..n -> BatchKinds]} :
                n \in MaxKeyframes..MaxBatch}

VideoBody(hasFrames, frames, targetClass) ==
    [endpoint |-> "/analyze-video", hasFrames |-> hasFrames, frames |-> frames,
     targetClass |-> targetClass, itemName |-> "keys",
     itemDescription |-> "a bunch of keys"]

VideoBodies ==
    {VideoBody(FALSE, <<>>, t) : t \in Targets}
    \cup {VideoBody(TRUE, frames, t) : frames \in FrameLists, t \in Targets}
    \cup {VideoBody(TRUE, frames, t) : frames \in BatchLists, t \in {<<>>, Cup}}

(* --------------------------- the state machine ------------------------ *)

\* No request is being served.
Idle == [endpoint |-> "idle"]

\* No response has been made.
NoResp == [status |-> 0]

\* The module-level `try: model = YOLO(...) except: model = None`.
Init ==
    /\ model \in {"yolov8m", "None"}
    /\ req = Idle
    /\ resp = NoResp
    /\ calls = 0

Health ==
    /\ req = Idle
    /\ req' = [endpoint |-> "/health"]
    /\ resp' = health.resp
    /\ calls' = health.calls
    /\ UNCHANGED model

Detect ==
    /\ req = Idle
    /\ \E data \in DetectBodies :
          LET result == detect(model, data)
          IN  /\ req' = data
              /\ resp' = result.resp
              /\ calls' = result.calls
    /\ UNCHANGED model

AnalyzeVideo ==
    /\ req = Idle
    /\ \E data \in VideoBodies :
          LET result == analyze_video(model, data)
          IN  /\ req' = data
              /\ resp' = result.resp
              /\ calls' = result.calls
    /\ UNCHANGED model

\* The response is returned; the server waits for the next request.
Return ==
    /\ req # Idle
    /\ req' = Idle
    /\ resp' = NoResp
    /\ calls' = 0
    /\ UNCHANGED model

Next == Health \/ Detect \/ AnalyzeVideo \/ Return

Spec == Init /\ [][Next]_vars

(* ------------------------------ the claims ---------------------------- *)

Loaded == model = "yolov8m"

\* The handler of endpoint ep has answered the request req with resp.
Responded(ep) == req.endpoint = ep /\ resp.status # 0

Succeeded(ep) == Responded(ep) /\ resp.status = 200

\* The frames list the request gives, [] when it gives none.
ReqFrames == IF req.hasFrames THEN req.frames ELSE <<>>

\* A frame entry whose image is a non-empty string that decodes to an image.
Decodes(fd) == fd.hasImage /\ fd.image.b64 = "ok" /\ fd.image.decodes

\* Box b matches target class t (lowercased) and reaches the threshold.
BoxQualifies(b, t) ==
    /\ \/ t = <<>>
       \/ IsSubstr(t, Lower(names[b.cls]))
       \/ IsSubstr(Lower(names[b.cls]), t)
    /\ b.conf >= Threshold

\* The confidences of the qualifying boxes of a decodable image string.
QualifyingConfs(image, t) ==
    {image.boxes[j].conf : j \in {k \in 1..Len(image.boxes) :
                                    BoxQualifies(image.boxes[k], t)}}

FrameQualifies(fd, t) == Decodes(fd) /\ QualifyingConfs(fd.image, t) # {}

\* The positions of the request's frames with a qualifying detection.
QualifyingFrames ==
    {i \in 1..Len(ReqFrames) : FrameQualifies(ReqFrames[i], Lower(req.targetClass))}

SetMax(S) == CHOOSE c \in S : \A d \in S : d <= c

\* Every detection record of the response, with the image it was made from.
Returned ==
    IF Succeeded("/detect")
    THEN {[d |-> resp.detections[k], image |-> req.image] :
            k \in 1..Len(resp.detections)}
    ELSE IF Succeeded("/analyze-video")
    THEN UNION {{[d |-> resp.keyframes[i].detections[k],
                  image |-> resp.keyframes[i].frameImage] :
                    k \in 1..Len(resp.keyframes[i].detections)} :
                i \in 1..Len(resp.keyframes)}
    ELSE {}

\* C1: in a successful /analyze-video response, stats.framesWithTarget is the
\* number of input frames with at least one qualifying detection, counted
\* before the cut to 10 keyframes.
C1_FramesWithTargetCountsQualifyingFrames ==
    Succeeded("/analyze-video") =>
        resp.stats.framesWithTarget = Cardinality(QualifyingFrames)

\* C2: every returned detection record has a box with 0 <= x1 <= x2 <= width
\* and 0 <= y1 <= y2 <= height of its source frame.
C2_BoxWithinImage ==
    \A r \in Returned :
        /\ 0 <= r.d.bbox[1] /\ r.d.bbox[1] <= r.d.bbox[3] /\ r.d.bbox[3] <= r.image.w
        /\ 0 <= r.d.bbox[2] /\ r.d.bbox[2] <= r.d.bbox[4] /\ r.d.bbox[4] <= r.image.h

\* C3: every returned detection record has a croppedImage exactly when its
\* clamped box has nonzero area (x2 - x1 > 0 and y2 - y1 > 0).
C3_CroppedIffNonzeroArea ==
    \A r \in Returned :
        ~r.d.croppedImage.null <=>
            (r.d.bbox[3] - r.d.bbox[1] > 0 /\ r.d.bbox[4] - r.d.bbox[2] > 0)

\* C4: a successful /analyze-video response holds min(10, q) keyframes, q
\* being the number of input frames with at least one qualifying detection.
C4_KeyframeCap ==
    Succeeded("/analyze-video") =>
        Len(resp.keyframes) = Min(MaxKeyframes, Cardinality(QualifyingFrames))

\* More than 10 frames qualified and 10 keyframes came back.
C4_Witness ==
    /\ Succeeded("/analyze-video")
    /\ Cardinality(QualifyingFrames) > MaxKeyframes
    /\ Len(resp.keyframes) = MaxKeyframes

\* The position in the request of the frame a keyframe was made from: the
\* entry at position i is stamped i seconds.
FrameOf(kf) == kf.timestamp \div 100

\* The confidence a keyframe of the frame at position i carries.
ConfidenceOf(i) ==
    Round2(SetMax(QualifyingConfs(ReqFrames[i].image, Lower(req.targetClass))))

\* C5: the returned keyframes are in descending order of confidence, and
\* keyframes of equal confidence are in input-frame order, among themselves
\* and against the frames the cut to 10 dropped.
C5_RankedStable ==
    Succeeded("/analyze-video") =>
        /\ \A i, j \in 1..Len(resp.keyframes) :
              i < j =>
                \/ resp.keyframes[i].confidence > resp.keyframes[j].confidence
                \/ /\ resp.keyframes[i].confidence = resp.keyframes[j].confidence
                   /\ FrameOf(resp.keyframes[i]) < FrameOf(resp.keyframes[j])
        /\ \A f \in QualifyingFrames :
              \/ \E i \in 1..Len(resp.keyframes) : FrameOf(resp.keyframes[i]) = f
              \/ \A i \in 1..Len(resp.keyframes) :
                    \/ resp.keyframes[i].confidence > ConfidenceOf(f)
                    \/ /\ resp.keyframes[i].confidence = ConfidenceOf(f)
                       /\ FrameOf(resp.keyframes[i]) < f

\* The sort moved a later frame ahead of an earlier one, and the cut dropped
\* a frame that tied with a returned one.
C5_Witness ==
    /\ Succeeded("/analyze-video")
    /\ \E i \in 1..(Len(resp.keyframes) - 1) :
          FrameOf(resp.keyframes[i]) > FrameOf(resp.keyframes[i + 1])
    /\ \E f \in QualifyingFrames :
          /\ \A i \in 1..Len(resp.keyframes) : FrameOf(resp.keyframes[i]) # f
          /\ \E i \in 1..Len(resp.keyframes) :
                resp.keyframes[i].confidence = ConfidenceOf(f)

\* The boxes of `boxes` that pass the class test Keep and have an unrounded
\* confidence of at least the threshold, in the detector's order.
RECURSIVE Retained(_, _, _)
Retained(boxes, Keep(_), j) ==
    IF j > Len(boxes) THEN <<>>
    ELSE IF Keep(boxes[j]) /\ ~(boxes[j].conf < Threshold)
    THEN <<boxes[j]>> \o Retained(boxes, Keep, j + 1)
    ELSE Retained(boxes, Keep, j + 1)

\* The detection records are those of the boxes `kept`, one for one.
RecordsOf(detections, kept) ==
    /\ Len(detections) = Len(kept)
    /\ \A k \in 1..Len(kept) :
          /\ detections[k].className = names[kept[k].cls]
          /\ detections[k].confidence = Round2(kept[k].conf)

InTargetClasses(b) ==
    req.targetClasses = <<>> \/ InList(names[b.cls], req.targetClasses)

MatchesTargetClass(b) ==
    \/ Lower(req.targetClass) = <<>>
    \/ IsSubstr(Lower(req.targetClass), Lower(names[b.cls]))
    \/ IsSubstr(Lower(names[b.cls]), Lower(req.targetClass))

\* C6: the detections of /detect, and of every keyframe of /analyze-video,
\* are exactly the boxes that pass the class filter and whose unrounded
\* confidence is not below 0.3: none with c < 0.3, and those with c = 0.3.
C6_ThresholdOnUnrounded ==
    /\ Succeeded("/detect") =>
          RecordsOf(resp.detections, Retained(req.image.boxes, InTargetClasses, 1))
    /\ Succeeded("/analyze-video") =>
          \A i \in 1..Len(resp.keyframes) :
              RecordsOf(resp.keyframes[i].detections,
                        Retained(resp.keyframes[i].frameImage.boxes,
                                 MatchesTargetClass, 1))

\* /detect saw a box at 0.297, which rounds to 0.30, and a box at 0.300 of a
\* wanted class, and returned one detection.
C6_Witness ==
    /\ Succeeded("/detect")
    /\ Len(req.image.boxes) = 2
    /\ req.image.boxes[1].conf = 297 /\ InTargetClasses(req.image.boxes[1])
    /\ req.image.boxes[2].conf = Threshold /\ InTargetClasses(req.image.boxes[2])
    /\ Len(resp.detections) = 1

\* C7: with the model loaded, /analyze-video answers a request whose frames
\* list is empty or absent with 400 "No frames provided", without calling the
\* model.
C7_NoFramesRejected ==
    (Loaded /\ Responded("/analyze-video") /\ ReqFrames = <<>>) =>
        /\ resp = Error(400, "No frames provided")
        /\ calls = 0

\* A request with "frames": [] was answered.
C7_Witness ==
    /\ Loaded
    /\ Responded("/analyze-video")
    /\ req.hasFrames /\ req.frames = <<>>
    /\ resp.status = 400

\* C8: with the model loaded and frames given, /analyze-video succeeds
\* whatever entries have a missing, empty or undecodable image: it calls the
\* model once per decodable entry, makes no keyframe of another entry, and
\* reports the length of the frames list as totalFramesAnalyzed.
C8_BadFramesSkipped ==
    (Loaded /\ Responded("/analyze-video") /\ ReqFrames # <<>>) =>
        /\ resp.status = 200
        /\ calls = Cardinality({i \in 1..Len(ReqFrames) : Decodes(ReqFrames[i])})
        /\ \A k \in 1..Len(resp.keyframes) :
              /\ FrameOf(resp.keyframes[k]) \in 1..Len(ReqFrames)
              /\ Decodes(ReqFrames[FrameOf(resp.keyframes[k])])
        /\ resp.stats.totalFramesAnalyzed = Len(ReqFrames)

\* C9: once the model failed to load, /detect and /analyze-video answer
\* every request with 500 "Model not loaded" and call no model, /health
\* answers 200 "ok", and the model handle never changes.
C9_ModelNotLoaded ==
    /\ [](model = "None" =>
            /\ (Responded("/detect") \/ Responded("/analyze-video")) =>
                  (resp = Error(500, "Model not loaded") /\ calls = 0)
            /\ Responded("/health") =>
                  (resp.status = 200 /\ resp.body.status = "ok"))
    /\ [][model' = model]_vars

\* Without a model, a /detect request that carries no image was answered.
C9_Witness ==
    /\ model = "None"
    /\ Responded("/detect")
    /\ ~req.hasImage
    /\ resp.status = 500

\* C10: the keyframes of a successful /analyze-video response come from
\* frames that decoded and have a qualifying detection, every such frame has
\* its keyframe unless 10 were returned without it, each keyframe lists its
\* frame's qualifying detections (at least one) and carries the rounded
\* maximum of their unrounded confidences, and stats.maxConfidence is the
\* rounded maximum over all qualifying frames, 0 without any.
C10_KeyframesAreQualifyingFrames ==
    Succeeded("/analyze-video") =>
        /\ \A k \in 1..Len(resp.keyframes) :
              LET kf == resp.keyframes[k] IN
              /\ FrameOf(kf) \in QualifyingFrames
              /\ kf.frameImage = ReqFrames[FrameOf(kf)].image
              /\ kf.detections # <<>>
              /\ Len(kf.detections) =
                    Cardinality({j \in 1..Len(kf.frameImage.boxes) :
                        BoxQualifies(kf.frameImage.boxes[j], Lower(req.targetClass))})
              /\ kf.confidence = ConfidenceOf(FrameOf(kf))
        /\ \A f \in QualifyingFrames :
              \/ \E k \in 1..Len(resp.keyframes) : FrameOf(resp.keyframes[k]) = f
              \/ Len(resp.keyframes) = MaxKeyframes
        /\ resp.stats.maxConfidence =
              IF QualifyingFrames = {} THEN 0
              ELSE SetMax({ConfidenceOf(f) : f \in QualifyingFrames})

\* A frame whose first detection is its best and whose second also qualifies
\* gave a keyframe, beside a frame that decoded but gave none.
C10_Witness ==
    /\ Succeeded("/analyze-video")
    /\ Len(resp.keyframes) = 1
    /\ Len(resp.keyframes[1].detections) = 2
    /\ resp.keyframes[1].detections[1].confidence
          > resp.keyframes[1].detections[2].confidence
    /\ \E i \in 1..Len(ReqFrames) : Decodes(ReqFrames[i]) /\ i \notin QualifyingFrames

====
